---- MODULE Spec2Model ----
(***************************************************************************)
(* A model of the BER codec helpers of gosnmp (helper.go).                 *)
(*                                                                         *)
(* Every function of helper.go is pure, so the state of the program is one *)
(* call frame: the function being called (fn), its argument (arg), its     *)
(* outcome (ret) and the position of the call (pc).  Each action is one    *)
(* whole call of one function of helper.go.                                *)
(*                                                                         *)
(* Go integers keep their width.  A 64-bit integer (int, int64, uint64 on  *)
(* a 64-bit target) is a Word: a tuple of 8 bytes, most significant first, *)
(* two's complement.  A byte is a number in 0..255.  A string is the      *)
(* tuple of its bytes.  A run-time panic of Go (index or slice out of      *)
(* range) is the outcome [st |-> "panic"].                                 *)
(***************************************************************************)
EXTENDS Integers, Sequences, FiniteSets

VARIABLES pc, fn, arg, ret

vars == <<pc, fn, arg, ret>>

(***************************************************************************)
(* Bytes                                                                   *)
(***************************************************************************)
Byte == 0..255

Pow2(k) == 2^k

\* bit k of the byte a
Bit(a, k) == (a \div Pow2(k)) % 2

\* a & b on bytes
BitAnd(a, b) ==
    Bit(a, 0) * Bit(b, 0) + 2 * Bit(a, 1) * Bit(b, 1)
        + 4 * Bit(a, 2) * Bit(b, 2) + 8 * Bit(a, 3) * Bit(b, 3)
        + 16 * Bit(a, 4) * Bit(b, 4) + 32 * Bit(a, 5) * Bit(b, 5)
        + 64 * Bit(a, 6) * Bit(b, 6) + 128 * Bit(a, 7) * Bit(b, 7)

\* a | b on bytes
BitOr(a, b) == a + b - BitAnd(a, b)

\* byte(x) for a number x >= 0 or x < 0: the low 8 bits
ByteOf(x) == x % 256

\* the sequence made of n copies of b (SubSeq makes the function a tuple)
Fill(n, b) == SubSeq([i \in 1..n |-> b], 1, n)

\* Go's s[lo:hi] on a slice whose length and capacity are both Len(s)
Slice(s, lo, hi) == SubSeq(s, lo + 1, hi)

(***************************************************************************)
(* 64-bit words                                                            *)
(***************************************************************************)
WordBits == 64

WordBytes == WordBits \div 8

Zero64 == Fill(WordBytes, 0)

\* a word is a tuple of WordBytes bytes, most significant first; the loops
\* below ask this of their accumulator on every round, which also makes TLC
\* evaluate it round by round and not as one nested expression at the end
IsWord(w) == Len(w) = WordBytes

\* the word of a number 0 <= n < 2^31
NatLimbs(n) ==
    <<0, 0, 0, 0, (n \div 16777216) % 256, (n \div 65536) % 256, (n \div 256) % 256,
      n % 256>>

\* the number made of the bytes i, i+1, i+2 of w
Limb(w, i) == (w[i] * 256 + w[i + 1]) * 256 + w[i + 2]

\* w + v modulo 2^64, added in limbs of 3, 3 and 2 bytes with their carries
Add64(w, v) ==
    LET lo == Limb(w, 6) + Limb(v, 6)
        mid == Limb(w, 3) + Limb(v, 3) + lo \div 16777216
        hi == (w[1] + v[1]) * 256 + w[2] + v[2] + mid \div 16777216
    IN  <<(hi \div 256) % 256, hi % 256,
          (mid \div 65536) % 256, (mid \div 256) % 256, mid % 256,
          (lo \div 65536) % 256, (lo \div 256) % 256, lo % 256>>

Not64(w) == SubSeq([i \in 1..WordBytes |-> 255 - w[i]], 1, WordBytes)

Neg64(w) == Add64(Not64(w), NatLimbs(1))

\* int64(n) for a number n with |n| < 2^31
Int64Of(n) == IF n >= 0 THEN NatLimbs(n) ELSE Neg64(NatLimbs(-n))

IsNeg64(w) == w[1] >= 128

\* w << s on a 64-bit word: Go gives 0 for s >= 64
Shl64(w, s) ==
    IF s >= WordBits THEN Zero64
    ELSE LET q == s \div 8
             r == s % 8
             b(i) == IF i + q <= WordBytes THEN w[i + q] ELSE 0
         IN  SubSeq([i \in 1..WordBytes |->
                        ((b(i) * Pow2(r)) % 256) + (b(i + 1) \div Pow2(8 - r))],
                    1, WordBytes)

\* w >> s on a signed 64-bit word (arithmetic): Go fills with the sign
Sar64(w, s) ==
    LET f == IF IsNeg64(w) THEN 255 ELSE 0
    IN  IF s >= WordBits THEN Fill(WordBytes, f)
        ELSE LET q == s \div 8
                 r == s % 8
                 b(i) == IF i - q >= 1 THEN w[i - q] ELSE f
             IN  SubSeq([i \in 1..WordBytes |->
                            (b(i) \div Pow2(r)) + ((b(i - 1) % Pow2(r)) * Pow2(8 - r))],
                        1, WordBytes)

\* w | v
Or64(w, v) == SubSeq([i \in 1..WordBytes |-> BitOr(w[i], v[i])], 1, WordBytes)

\* int64(b), uint64(b), int(b) of a byte b
WordOfByte(b) ==
    SubSeq([i \in 1..WordBytes |-> IF i = WordBytes THEN b ELSE 0], 1, WordBytes)

\* byte(w): the low 8 bits
LowByte(w) == w[WordBytes]

\* whether the signed word is a number in 0 .. 2^31 - 1, and that number
FitsNat(w) == (\A i \in 1..(WordBytes - 4) : w[i] = 0) /\ w[WordBytes - 3] < 128

NatOf(w) ==
    ((w[WordBytes - 3] * 256 + w[WordBytes - 2]) * 256 + w[WordBytes - 1]) * 256
        + w[WordBytes]

\* w >> s on an unsigned 64-bit word (logical)
Shr64(w, s) ==
    IF s >= WordBits THEN Zero64
    ELSE LET q == s \div 8
             r == s % 8
             b(i) == IF i - q >= 1 THEN w[i - q] ELSE 0
         IN  SubSeq([i \in 1..WordBytes |->
                        (b(i) \div Pow2(r)) + ((b(i - 1) % Pow2(r)) * Pow2(8 - r))],
                    1, WordBytes)

\* the width of Go's int and uint on the 64-bit targets modelled here
IntBits == 64

\* int64(int(w)): truncation to int, then sign extension back to 64 bits
Int64OfInt(w) == Sar64(Shl64(w, WordBits - IntBits), WordBits - IntBits)

\* uint64(uint(w)): truncation to uint, then zero extension back to 64 bits
Uint64OfUint(w) == Shr64(Shl64(w, WordBits - IntBits), WordBits - IntBits)

\* the number a signed word stands for, when it lies within -2^31 .. 2^31 - 1
FitsInt(w) == IF IsNeg64(w) THEN FitsNat(Not64(w)) ELSE FitsNat(w)

IntOf(w) == IF IsNeg64(w) THEN -(NatOf(Not64(w))) - 1 ELSE NatOf(w)

(***************************************************************************)
(* Outcomes                                                                *)
(***************************************************************************)
Ok(v) == [st |-> "ok", err |-> "", val |-> v]

Err(e, v) == [st |-> "err", err |-> e, val |-> v]

ErrTooLarge == "integer too large"

(***************************************************************************)
(* Integer codec                                                           *)
(***************************************************************************)
\* the loop of parseInt64 and parseUint64: ret <<= 8; ret |= bytes[i]
RECURSIVE AccumulateBytes(_, _, _)
AccumulateBytes(bytes, i, acc) ==
    IF i > Len(bytes) \/ ~IsWord(acc) THEN acc
    ELSE AccumulateBytes(bytes, i + 1, Or64(Shl64(acc, 8), WordOfByte(bytes[i])))

\* 64 - uint8(len(bytes))*8, computed in uint8
SignShift(n) == (WordBits - (((n % 256) * 8) % 256)) % 256

\* parseInt64 without the arithmetic shift back: the result is zero extended
parseInt64_ZeroExtend(bytes) ==
    IF Len(bytes) > 8 THEN Err(ErrTooLarge, Zero64)
    ELSE LET acc == AccumulateBytes(bytes, 1, Zero64)
             s == SignShift(Len(bytes))
         IN  Ok(Shr64(Shl64(acc, s), s))

parseInt64(bytes) ==
    IF Len(bytes) > 8 THEN Err(ErrTooLarge, Zero64)
    ELSE LET acc == AccumulateBytes(bytes, 1, Zero64)
             s == SignShift(Len(bytes))
         IN  Ok(Sar64(Shl64(acc, s), s))

parseInt(bytes) ==
    LET r == parseInt64(bytes)
    IN  IF r.st # "ok" THEN Err(r.err, Zero64)
        ELSE IF r.val # Int64OfInt(r.val) THEN Err(ErrTooLarge, Zero64)
        ELSE Ok(r.val)

parseUint64(bytes) ==
    IF Len(bytes) > 8 THEN Err(ErrTooLarge, Zero64)
    ELSE Ok(AccumulateBytes(bytes, 1, Zero64))

parseUint(bytes) ==
    LET r == parseUint64(bytes)
    IN  IF r.st # "ok" THEN Err(r.err, Zero64)
        ELSE IF r.val # Uint64OfUint(r.val) THEN Err(ErrTooLarge, Zero64)
        ELSE Ok(r.val)

(***************************************************************************)
(* Calls of the integer codec                                              *)
(***************************************************************************)
\* the longest input of the integer codec
MaxIntLen == 9

\* the longest input of the integer codec drawn from the wider byte set
MaxIntLenWide == 3

\* the bytes an input starts with, and the bytes it goes on with
LeadBytes == {0, 1, 127, 128, 200, 255}

TailBytes == {0, 255}

\* the exponents k of the numbers +-2^k, +-2^k - 1 that are encoded
IntExps == {0, 1, 6, 7, 8, 14, 15, 16, 22, 23, 24, 30}

SeqsUpTo(S, n) == UNION {[1..k -> S] : k \in 0..n}

IntNumbers ==
    UNION {{Pow2(k), Pow2(k) - 1, -Pow2(k), -Pow2(k) - 1} : k \in IntExps}

\* whether n is representable in L bytes of two's complement
Representable(n, L) == L >= 4 \/ (-Pow2(8 * L - 1) <= n /\ n < Pow2(8 * L - 1))

\* the L-byte big-endian two's complement encoding of n
TwosBytes(n, L) == Slice(Int64Of(n), WordBytes - L, WordBytes)

\* an input is a byte string, or the encoding of a known number n
RawInput(b) == [bytes |-> b, known |-> FALSE, n |-> 0]

IntInputs ==
    {RawInput(<<x[1]>> \o x[2]) : x \in LeadBytes \X SeqsUpTo(TailBytes, MaxIntLen - 1)}
        \cup {RawInput(b) : b \in SeqsUpTo(LeadBytes, MaxIntLenWide)}
        \cup {[bytes |-> TwosBytes(x[1], x[2]), known |-> TRUE, n |-> x[1]] :
                 x \in {y \in IntNumbers \X (1..WordBytes) : Representable(y[1], y[2])}}

InitInt == pc = "call" /\ fn = "" /\ arg \in IntInputs /\ ret = <<>>

Done(f, r) == pc = "call" /\ pc' = "done" /\ fn' = f /\ ret' = r /\ arg' = arg

CallParseInt64 == Done("parseInt64", parseInt64(arg.bytes))

CallParseInt == Done("parseInt", parseInt(arg.bytes))

CallParseUint64 == Done("parseUint64", parseUint64(arg.bytes))

CallParseUint == Done("parseUint", parseUint(arg.bytes))

NextInt == CallParseInt64 \/ CallParseInt \/ CallParseUint64 \/ CallParseUint

SpecInt == InitInt /\ [][NextInt]_vars

\* the sign extension of an encoding of 1 to 8 bytes to 8 bytes
SignExtended(bytes) ==
    Fill(WordBytes - Len(bytes), IF bytes[1] >= 128 THEN 255 ELSE 0) \o bytes

\* the number an encoding of at most 3 bytes stands for in two's complement
RECURSIVE UnsignedValue(_)
UnsignedValue(bytes) ==
    IF bytes = <<>> THEN 0
    ELSE 256 * UnsignedValue(SubSeq(bytes, 1, Len(bytes) - 1)) + bytes[Len(bytes)]

SignedValue(bytes) ==
    IF bytes[1] >= 128 THEN UnsignedValue(bytes) - Pow2(8 * Len(bytes))
    ELSE UnsignedValue(bytes)

\* C7: for every length L in 1..8 and every n representable in L bytes of
\* big-endian two's complement (negative n and encodings with redundant sign
\* bytes included), parseInt64 (and parseInt, whose int is 64 bits wide) of
\* the L-byte encoding returns n: the result is the sign extension of the
\* input to 64 bits, it is the number the encoding stands for, and an input
\* of more than 8 bytes is rejected with "integer too large".
C7_ParseSignedRoundTrip ==
    (pc = "done" /\ fn \in {"parseInt64", "parseInt"}) =>
        LET bytes == arg.bytes
        IN  /\ Len(bytes) > 8 => (ret.st = "err" /\ ret.err = ErrTooLarge)
            /\ Len(bytes) \in 1..8 =>
                /\ ret.st = "ok"
                /\ ret.val = SignExtended(bytes)
                /\ Len(bytes) <= 3 =>
                      (FitsInt(ret.val) /\ IntOf(ret.val) = SignedValue(bytes))
                /\ arg.known => (FitsInt(ret.val) /\ IntOf(ret.val) = arg.n)

\* a negative number in a non-minimal encoding has been decoded
C7_Witness ==
    /\ pc = "done" /\ fn = "parseInt64"
    /\ arg.known /\ arg.n = -129 /\ arg.bytes = <<255, 255, 255, 127>>
    /\ ret.st = "ok" /\ IntOf(ret.val) = -129

(***************************************************************************)
(* Bit string codec                                                        *)
(***************************************************************************)
ErrZeroLengthBitString == "zero length BIT STRING"

ErrInvalidPadding == "invalid padding bits in BIT STRING"

BitStringValue(bytes, bitLength) == [Bytes |-> bytes, BitLength |-> bitLength]

NoBitString == BitStringValue(<<>>, 0)

\* (1<<bytes[0])-1, computed in a byte
PaddingMask(p) == ((Pow2(p) % 256) - 1) % 256

\* parseBitString without the check of the padding bits of the last byte
parseBitString_NoPaddingCheck(bytes) ==
    IF Len(bytes) = 0 THEN Err(ErrZeroLengthBitString, NoBitString)
    ELSE LET paddingBits == bytes[1]
         IN  IF \/ paddingBits > 7
                \/ (Len(bytes) = 1 /\ paddingBits > 0)
             THEN Err(ErrInvalidPadding, NoBitString)
             ELSE Ok(BitStringValue(Slice(bytes, 1, Len(bytes)),
                                    (Len(bytes) - 1) * 8 - paddingBits))

parseBitString(bytes) ==
    IF Len(bytes) = 0 THEN Err(ErrZeroLengthBitString, NoBitString)
    ELSE LET paddingBits == bytes[1]
         IN  IF \/ paddingBits > 7
                \/ (Len(bytes) = 1 /\ paddingBits > 0)
                \/ BitAnd(bytes[Len(bytes)], PaddingMask(bytes[1])) # 0
             THEN Err(ErrInvalidPadding, NoBitString)
             ELSE Ok(BitStringValue(Slice(bytes, 1, Len(bytes)),
                                    (Len(bytes) - 1) * 8 - paddingBits))

(***************************************************************************)
(* Calls of the bit string codec                                           *)
(***************************************************************************)
\* the largest padding count of an input with data bytes
MaxPadding == 9

\* the largest number of bytes between the padding count and the last byte
MaxBitMiddle == 1

BitInputs ==
    {<<>>}
        \cup {<<p>> : p \in Byte}
        \cup {<<x[1]>> \o x[2] \o <<x[3]>> :
                 x \in (0..MaxPadding) \X SeqsUpTo({0, 255}, MaxBitMiddle) \X Byte}

InitBits == pc = "call" /\ fn = "" /\ arg \in BitInputs /\ ret = <<>>

CallParseBitString == Done("parseBitString", parseBitString(arg))

NextBits == CallParseBitString

SpecBits == InitBits /\ [][NextBits]_vars

\* whether the low p bits of byte b are all zero
LowBitsZero(b, p) == b % Pow2(p) = 0

\* C8: parseBitString fails exactly when the input is empty (zero length BIT
\* STRING), or the first byte exceeds 7, or the input is one byte long with a
\* nonzero first byte, or one of the low `padding` bits of the last byte is
\* nonzero (invalid padding); every value it returns satisfies
\* 0 <= BitLength <= 8*len(Bytes), BitLength = 8*len(Bytes) - padding, and
\* the trailing padding bits of the last byte of Bytes are zero.
C8_BitStringInvariant ==
    (pc = "done" /\ fn = "parseBitString") =>
        LET empty == Len(arg) = 0
            badPadding ==
                /\ ~empty
                /\ \/ arg[1] > 7
                   \/ (Len(arg) = 1 /\ arg[1] # 0)
                   \/ ~LowBitsZero(arg[Len(arg)], arg[1])
        IN  /\ empty <=> (ret.st = "err" /\ ret.err = ErrZeroLengthBitString)
            /\ badPadding <=> (ret.st = "err" /\ ret.err = ErrInvalidPadding)
            /\ (~empty /\ ~badPadding) <=> ret.st = "ok"
            /\ ret.st = "ok" =>
                LET v == ret.val
                    n == Len(v.Bytes)
                IN  /\ v.Bytes = Tail(arg)
                    /\ 0 <= v.BitLength /\ v.BitLength <= 8 * n
                    /\ v.BitLength = 8 * n - arg[1]
                    /\ n > 0 => LowBitsZero(v.Bytes[n], 8 * n - v.BitLength)
                    /\ n = 0 => v.BitLength = 0

\* [0x04, 0xF0] has been decoded to a bit string of 4 bits
C8_Witness ==
    /\ pc = "done" /\ fn = "parseBitString" /\ arg = <<4, 240>>
    /\ ret.st = "ok" /\ ret.val.BitLength = 4 /\ ret.val.Bytes = <<240>>

(***************************************************************************)
(* Base-128 varint codec                                                   *)
(***************************************************************************)
ErrBase128TooLarge == "Structural Error: base 128 integer too large"

ErrBase128Truncated == "Syntax Error: truncated base 128 integer"

IsPos64(w) == ~IsNeg64(w) /\ w # Zero64

\* for i := n; i > 0; i >>= 7 { l++ }
RECURSIVE Base128Groups(_)
Base128Groups(i) == IF IsPos64(i) THEN 1 + Base128Groups(Sar64(i, 7)) ELSE 0

\* the bytes written for the groups i, i-1, ..., 0 of n
RECURSIVE Base128Emit(_, _)
Base128Emit(n, i) ==
    IF i < 0 THEN <<>>
    ELSE LET o == BitAnd(LowByte(Sar64(n, i * 7)), 127)
         IN  <<IF i # 0 THEN BitOr(o, 128) ELSE o>> \o Base128Emit(n, i - 1)

\* the bytes marshalBase128Int appends to out (a bytes.Buffer never fails)
marshalBase128Int(n) ==
    IF n = Zero64 THEN <<0>> ELSE Base128Emit(n, Base128Groups(n) - 1)

ParseResult(st, err, val, offset) ==
    [st |-> st, err |-> err, val |-> val, offset |-> offset]

\* the loop of parseBase128Int, which gives up once shifted exceeds limit
RECURSIVE Base128Loop(_, _, _, _, _)
Base128Loop(bytes, offset, shifted, acc, limit) ==
    IF offset >= Len(bytes) \/ ~IsWord(acc)
    THEN ParseResult("err", ErrBase128Truncated, acc, offset)
    ELSE IF shifted > limit THEN ParseResult("err", ErrBase128TooLarge, acc, offset)
    ELSE LET b == bytes[offset + 1]
             next == Or64(Shl64(acc, 7), WordOfByte(BitAnd(b, 127)))
         IN  IF BitAnd(b, 128) = 0 THEN ParseResult("ok", "", next, offset + 1)
             ELSE Base128Loop(bytes, offset + 1, shifted + 1, next, limit)

\* parseBase128Int with the bound on the groups off by one (shifted > 5)
parseBase128Int_OffByOne(bytes, initOffset) ==
    Base128Loop(bytes, initOffset, 0, Zero64, 5)

parseBase128Int(bytes, initOffset) ==
    Base128Loop(bytes, initOffset, 0, Zero64, 4)

(***************************************************************************)
(* Calls of the base-128 codec                                             *)
(***************************************************************************)
\* the longest raw buffer given to parseBase128Int
MaxVarintLen == 7

\* the largest offset parseBase128Int is started at
MaxVarintOffset == 1

\* the bit positions the encoded numbers are made of: the edges of the groups
VarintBits == {0, 6, 7, 13, 14, 20, 21, 27, 28, 34, 35, 41, 42, 48, 49, 55, 56, 62, 63}

\* the word with only bit k set, and the word with the k low bits set
BitWord(k) == Shl64(WordOfByte(1), k)

LowOnes(k) == Not64(Shl64(Not64(Zero64), k))

VarintNumbers ==
    {Zero64}
        \cup {Or64(BitWord(x[1]), BitWord(x[2])) : x \in VarintBits \X VarintBits}
        \cup {LowOnes(k) : k \in VarintBits}

VarintInput(n, known, bytes, offset) ==
    [n |-> n, known |-> known, bytes |-> bytes, offset |-> offset]

InitVarint ==
    /\ fn = "" /\ ret = <<>>
    /\ \/ /\ pc = "encode"
          /\ arg \in {VarintInput(n, TRUE, <<>>, 0) : n \in VarintNumbers}
       \/ /\ pc = "call"
          /\ arg \in {VarintInput(Zero64, FALSE, x[1], x[2]) :
                         x \in SeqsUpTo({1, 129, 255}, MaxVarintLen)
                                   \X (0..MaxVarintOffset)}

\* marshalBase128Int(out, n) on an empty buffer; the bytes written are then
\* what parseBase128Int is given, at offset 0
CallMarshalBase128Int ==
    /\ pc = "encode"
    /\ pc' = "call"
    /\ fn' = "marshalBase128Int"
    /\ ret' = marshalBase128Int(arg.n)
    /\ arg' = [arg EXCEPT !.bytes = marshalBase128Int(arg.n)]

CallParseBase128Int ==
    /\ pc = "call"
    /\ pc' = "done"
    /\ fn' = "parseBase128Int"
    /\ ret' = parseBase128Int(arg.bytes, arg.offset)
    /\ arg' = arg

NextVarint == CallMarshalBase128Int \/ CallParseBase128Int

SpecVarint == InitVarint /\ [][NextVarint]_vars

\* whether a non-negative word is below 2^35 (at most 5 groups of 7 bits)
Below2Pow35(w) == w[1] = 0 /\ w[2] = 0 /\ w[3] = 0 /\ w[4] < 8

\* the number of bytes with the top bit set that the bytes from offset start with
RECURSIVE Continuations(_, _)
Continuations(bytes, offset) ==
    IF offset >= Len(bytes) \/ bytes[offset + 1] < 128 THEN 0
    ELSE 1 + Continuations(bytes, offset + 1)

\* the number that k groups of 7 bits from offset stand for (k <= 4)
RECURSIVE GroupsValue(_, _, _)
GroupsValue(bytes, offset, k) ==
    IF k = 0 THEN 0
    ELSE 128 * GroupsValue(bytes, offset, k - 1) + (bytes[offset + k] % 128)

\* C9: for every n with 0 <= n < 2^35, parseBase128Int at offset 0 of the
\* output of marshalBase128Int(n) returns n and the length of the encoding;
\* every n >= 2^35 the encoder emits is rejected with "integer too large";
\* on any buffer the parse succeeds exactly when a byte with the top bit clear
\* is among the first 5 bytes read, fails with "too large" when a 6th byte is
\* there to be read after 5 bytes without one, and fails with "truncated" when
\* the buffer ends before a byte with its top bit clear is read.
C9_Base128RoundTrip ==
    (pc = "done" /\ fn = "parseBase128Int") =>
        LET avail == Len(arg.bytes) - arg.offset
            c == Continuations(arg.bytes, arg.offset)
        IN  /\ (arg.known /\ ~IsNeg64(arg.n) /\ Below2Pow35(arg.n)) =>
                  /\ ret.st = "ok"
                  /\ ret.val = arg.n
                  /\ ret.offset = Len(arg.bytes)
            /\ (arg.known /\ ~IsNeg64(arg.n) /\ ~Below2Pow35(arg.n)) =>
                  (ret.st = "err" /\ ret.err = ErrBase128TooLarge)
            /\ (c < 5 /\ c < avail) <=> ret.st = "ok"
            /\ (c >= 5 /\ avail > 5) <=> (ret.st = "err" /\ ret.err = ErrBase128TooLarge)
            /\ (c >= avail /\ avail <= 5) <=> (ret.st = "err" /\ ret.err = ErrBase128Truncated)
            /\ ret.st = "ok" => ret.offset = arg.offset + c + 1
            /\ (ret.st = "ok" /\ c < 4) =>
                  (FitsNat(ret.val)
                      /\ NatOf(ret.val) = GroupsValue(arg.bytes, arg.offset, c + 1))

\* 2^34 + 2^7 has been encoded in 5 groups and decoded again
C9_Witness ==
    /\ pc = "done" /\ fn = "parseBase128Int" /\ arg.known
    /\ arg.n = <<0, 0, 0, 4, 0, 0, 0, 128>>
    /\ arg.bytes = <<192, 128, 128, 129, 0>>
    /\ ret.st = "ok" /\ ret.val = arg.n /\ ret.offset = 5

(***************************************************************************)
(* Length codec                                                            *)
(***************************************************************************)
ErrNegativeLength == "length must be greater than zero"

\* w < k for a signed word w and a number 0 <= k < 2^31
Less64(w, k) == IsNeg64(w) \/ (FitsNat(w) /\ NatOf(w) < k)

\* binary.Write(buf, binary.LittleEndian, uint64(length)): 8 bytes, least
\* significant first
LittleEndian64(w) ==
    SubSeq([i \in 1..WordBytes |-> w[WordBytes + 1 - i]], 1, WordBytes)

\* the index of the first byte equal to delim, or 0 when there is none
RECURSIVE IndexOfByte(_, _, _)
IndexOfByte(bytes, delim, i) ==
    IF i > Len(bytes) THEN 0
    ELSE IF bytes[i] = delim THEN i
    ELSE IndexOfByte(bytes, delim, i + 1)

\* buf.ReadBytes(delim): the bytes up to and including the first delim, or
\* all of them and io.EOF when there is no delim
ReadBytes(bytes, delim) ==
    LET i == IndexOfByte(bytes, delim, 1)
    IN  IF i = 0 THEN [data |-> bytes, eof |-> TRUE]
        ELSE [data |-> SubSeq(bytes, 1, i), eof |-> FALSE]

marshalLength(length) ==
    IF IsNeg64(length) THEN Err(ErrNegativeLength, <<>>)
    ELSE IF Less64(length, 127) THEN Ok(<<LowByte(length)>>)
    ELSE LET rd == ReadBytes(LittleEndian64(length), 0)
         IN  IF rd.eof THEN Ok(<<>>)   \* return nil, err: err is nil here
             ELSE LET buf_bytes == Slice(rd.data, 0, Len(rd.data) - 1)
                  IN  Ok(<<ByteOf(BitOr(128, Len(buf_bytes)))>> \o buf_bytes)

Panic == [st |-> "panic"]

LengthResult(st, length, cursor) == [st |-> st, length |-> length, cursor |-> cursor]

\* the loop of the long form: length <<= 8; length += int(bytes[2+i]); reading
\* past the end of bytes panics
RECURSIVE LengthOctets(_, _, _, _)
LengthOctets(bytes, num_octets, i, length) ==
    IF i >= num_octets \/ ~IsWord(length) THEN LengthResult("ok", length, 0)
    ELSE IF 2 + i >= Len(bytes) THEN Panic
    ELSE LengthOctets(bytes, num_octets, i + 1,
                      Add64(Shl64(length, 8), WordOfByte(bytes[2 + i + 1])))

parseLength(bytes) ==
    IF Len(bytes) <= 2 THEN LengthResult("ok", Int64Of(2), 1)
    ELSE IF bytes[2] <= 127 THEN LengthResult("ok", Int64Of(bytes[2] + 2), 2)
    ELSE LET num_octets == BitAnd(bytes[2], 127)
             r == LengthOctets(bytes, num_octets, 0, Zero64)
         IN  IF r.st = "panic" THEN Panic
             ELSE LengthResult("ok", Add64(r.length, Int64Of(2 + num_octets)),
                               2 + num_octets)

(***************************************************************************)
(* Calls of the length codec                                               *)
(***************************************************************************)
\* the largest length that is encoded and then decoded with its payload
MaxPayload == 300

\* the longest raw buffer given to parseLength
MaxLengthBuf == 5

\* lengths that are encoded only
LargeLengths ==
    {Int64Of(-1), Int64Of(-Pow2(30)), Int64Of(65535), Int64Of(65536),
     Int64Of(65537), Int64Of(Pow2(24)), Int64Of(Pow2(30) + 255),
     <<0, 0, 0, 1, 0, 0, 0, 0>>, <<0, 1, 2, 3, 4, 5, 6, 7>>,
     <<1, 2, 3, 4, 5, 6, 7, 8>>, <<127, 255, 255, 255, 255, 255, 255, 255>>}

LengthInput(n, known, tag, fill, bytes) ==
    [n |-> n, known |-> known, tag |-> tag, fill |-> fill, bytes |-> bytes]

InitLength ==
    /\ fn = "" /\ ret = <<>>
    /\ \/ /\ pc = "encode"
          /\ arg \in {LengthInput(Int64Of(x[1]), TRUE, x[2], x[3], <<>>) :
                         x \in (0..MaxPayload) \X {4, 48} \X {0, 255}}
       \/ /\ pc = "encode"
          /\ arg \in {LengthInput(n, FALSE, 4, 0, <<>>) : n \in LargeLengths}
       \/ /\ pc = "call"
          /\ arg \in {LengthInput(Zero64, FALSE, 4, 0, b) :
                         b \in SeqsUpTo({0, 1, 127, 129, 130, 255}, MaxLengthBuf)}

\* marshalLength(n); for a length whose payload is built, the buffer given to
\* parseLength next is one tag byte, the length octets and n payload bytes
CallMarshalLength ==
    /\ pc = "encode"
    /\ fn' = "marshalLength"
    /\ ret' = marshalLength(arg.n)
    /\ IF arg.known /\ marshalLength(arg.n).st = "ok"
       THEN /\ pc' = "call"
            /\ arg' = [arg EXCEPT !.bytes = <<arg.tag>> \o marshalLength(arg.n).val
                                                \o Fill(NatOf(arg.n), arg.fill)]
       ELSE /\ pc' = "done"
            /\ arg' = arg

CallParseLength ==
    /\ pc = "call"
    /\ pc' = "done"
    /\ fn' = "parseLength"
    /\ ret' = parseLength(arg.bytes)
    /\ arg' = arg

NextLength == CallMarshalLength \/ CallParseLength

SpecLength == InitLength /\ [][NextLength]_vars

\* the minimal big-endian bytes of a non-negative word: no leading zero byte
RECURSIVE MinimalBigEndian(_)
MinimalBigEndian(w) ==
    IF w = <<>> THEN <<>>
    ELSE IF w[1] = 0 THEN MinimalBigEndian(Tail(w))
    ELSE w

\* C4: for every length >= 127 marshalLength emits one header byte with the
\* top bit set and the low 7 bits equal to k, followed by exactly k bytes, the
\* minimal big-endian representation of length; for 0 <= length < 127 it emits
\* the single byte length; for length < 0 it fails; and marshalLength(200) is
\* [0x81, 0xC8].
C4_MarshalLengthBigEndian ==
    (fn = "marshalLength" /\ pc \in {"call", "done"}) =>
        /\ IsNeg64(arg.n) <=> (ret.st = "err" /\ ret.err = ErrNegativeLength)
        /\ (~IsNeg64(arg.n) /\ Less64(arg.n, 127)) =>
              (ret.st = "ok" /\ ret.val = <<NatOf(arg.n)>>)
        /\ (~IsNeg64(arg.n) /\ ~Less64(arg.n, 127)) =>
              /\ ret.st = "ok"
              /\ ret.val = <<128 + Len(MinimalBigEndian(arg.n))>>
                               \o MinimalBigEndian(arg.n)
        /\ arg.n = Int64Of(200) => ret.val = <<129, 200>>

\* marshalLength(200) has returned [0x81, 0xC8]
C4_Witness ==
    /\ fn = "marshalLength" /\ pc = "call" /\ arg.n = Int64Of(200)
    /\ ret.st = "ok" /\ ret.val = <<129, 200>>

\* C5: for every n >= 0, parseLength of the buffer made of one tag byte,
\* marshalLength(n) and n payload bytes returns a total length whose excess
\* over the header (tag byte plus length octets) is n, and a cursor that is the
\* offset of the first value byte; the 2-byte buffer of n = 0 yields cursor 1
\* and length 2.
C5_LengthRoundTrip ==
    (pc = "done" /\ fn = "parseLength" /\ arg.known) =>
        LET n == NatOf(arg.n)
            header == Len(arg.bytes) - n
        IN  /\ ret.st = "ok"
            /\ FitsNat(ret.length)
            /\ NatOf(ret.length) - header = n
            /\ ret.cursor = IF n = 0 THEN 1 ELSE header

\* a length of 200 in the long form has been encoded and decoded
C5_Witness ==
    /\ pc = "done" /\ fn = "parseLength" /\ arg.known /\ arg.n = Int64Of(200)
    /\ Len(arg.bytes) = 203 /\ ret.st = "ok"
    /\ NatOf(ret.length) = 203 /\ ret.cursor = 3

(***************************************************************************)
(* Strings: a Go string is its sequence of bytes                           *)
(***************************************************************************)
Asc(c) ==
    CASE c = " " -> 32 [] c = "+" -> 43 [] c = "-" -> 45 [] c = "." -> 46
      [] c = "0" -> 48 [] c = "1" -> 49 [] c = "2" -> 50 [] c = "3" -> 51
      [] c = "4" -> 52 [] c = "5" -> 53 [] c = "6" -> 54 [] c = "7" -> 55
      [] c = "8" -> 56 [] c = "9" -> 57 [] c = "a" -> 97 [] c = "b" -> 98
      [] c = "c" -> 99 [] c = "d" -> 100 [] c = "e" -> 101 [] c = "f" -> 102
      [] c = "x" -> 120

\* the Go string written with the characters t
Str(t) == SubSeq([i \in 1..Len(t) |-> Asc(t[i])], 1, Len(t))

IsDigit(c) == Asc("0") <= c /\ c <= Asc("9")

\* w / 10 and w % 10 of an unsigned 64-bit word, by long division in limbs of
\* 2, 3 and 3 bytes
DivMod10(w) ==
    LET hi == w[1] * 256 + w[2]
        mid == (hi % 10) * 16777216 + Limb(w, 3)
        lo == (mid % 10) * 16777216 + Limb(w, 6)
        qh == hi \div 10
        qm == mid \div 10
        ql == lo \div 10
    IN  [q |-> <<qh \div 256, qh % 256,
                 qm \div 65536, (qm \div 256) % 256, qm % 256,
                 ql \div 65536, (ql \div 256) % 256, ql % 256>>,
         r |-> lo % 10]

RECURSIVE DecimalDigits(_)
DecimalDigits(w) ==
    IF w = Zero64 THEN <<>>
    ELSE LET d == DivMod10(w)
         IN  DecimalDigits(d.q) \o <<Asc("0") + d.r>>

\* fmt.Sprintf("%d", w) of a signed 64-bit word
FormatInt(w) ==
    IF w = Zero64 THEN Str(<<"0">>)
    ELSE IF IsNeg64(w) THEN Str(<<"-">>) \o DecimalDigits(Neg64(w))
    ELSE DecimalDigits(w)

\* strings.Trim(s, "."): s without its leading and trailing dots
RECURSIVE TrimLeft(_, _)
TrimLeft(s, c) == IF s # <<>> /\ s[1] = c THEN TrimLeft(Tail(s), c) ELSE s

RECURSIVE TrimRight(_, _)
TrimRight(s, c) ==
    IF s # <<>> /\ s[Len(s)] = c THEN TrimRight(SubSeq(s, 1, Len(s) - 1), c) ELSE s

Trim(s, c) == TrimRight(TrimLeft(s, c), c)

\* strings.Split(s, "."): the parts between the dots, one more than the dots
RECURSIVE Split(_, _)
Split(s, c) ==
    LET i == IndexOfByte(s, c, 1)
    IN  IF i = 0 THEN <<s>>
        ELSE <<SubSeq(s, 1, i - 1)>> \o Split(SubSeq(s, i + 1, Len(s)), c)

\* the loop of strconv.Atoi: n = n*10 + digit; a part of the model is shorter
\* than 19 characters, for which Atoi cannot overflow
RECURSIVE AtoiDigits(_, _, _)
AtoiDigits(s, i, n) ==
    IF i > Len(s) \/ ~IsWord(n) THEN Ok(n)
    ELSE IF ~IsDigit(s[i]) THEN Err("invalid syntax", Zero64)
    ELSE AtoiDigits(s, i + 1,
                    Add64(Add64(Shl64(n, 3), Shl64(n, 1)),
                          WordOfByte(s[i] - Asc("0"))))

\* strconv.Atoi(s)
Atoi(s) ==
    IF s = <<>> THEN Err("invalid syntax", Zero64)
    ELSE LET signed == s[1] = Asc("-") \/ s[1] = Asc("+")
             digits == IF signed THEN Tail(s) ELSE s
             r == AtoiDigits(digits, 1, Zero64)
         IN  IF digits = <<>> THEN Err("invalid syntax", Zero64)
             ELSE IF r.st # "ok" THEN r
             ELSE IF s[1] = Asc("-") THEN Ok(Neg64(r.val))
             ELSE r

(***************************************************************************)
(* Object identifier codec                                                 *)
(***************************************************************************)
ErrInvalidOid == "invalid object identifier"

ErrParseOid == "Unable to parse OID"

ErrMarshalOid == "Unable to marshal OID: invalid object identifier"

ErrZeroLengthOid == "zero length OBJECT IDENTIFIER"

\* marshalBase128Int(out, int64(oid[i])) for i = from, from+1, ...
RECURSIVE MarshalComponents(_, _)
MarshalComponents(oid, from) ==
    IF from > Len(oid) THEN <<>>
    ELSE marshalBase128Int(oid[from]) \o MarshalComponents(oid, from + 1)

\* byte(oid[0]*40 + oid[1])
FirstOidByte(oid) == LowByte(Add64(Add64(Shl64(oid[1], 5), Shl64(oid[1], 3)), oid[2]))

marshalObjectIdentifier(oid) ==
    IF Len(oid) < 2 \/ ~Less64(oid[1], 7) \/ ~Less64(oid[2], 40)
    THEN Err(ErrInvalidOid, <<>>)
    ELSE Ok(<<FirstOidByte(oid)>> \o MarshalComponents(oid, 3))

\* oidBytes[i], err = strconv.Atoi(oidParts[i]) for every part, in order
RECURSIVE AtoiParts(_, _)
AtoiParts(parts, i) ==
    IF i > Len(parts) THEN Ok(<<>>)
    ELSE LET r == Atoi(parts[i])
             rest == AtoiParts(parts, i + 1)
         IN  IF r.st # "ok" THEN Err(ErrParseOid, <<>>)
             ELSE IF rest.st # "ok" THEN rest
             ELSE Ok(<<r.val>> \o rest.val)

marshalOID(oid) ==
    LET oidParts == Split(Trim(oid, Asc(".")), Asc("."))
        oidBytes == AtoiParts(oidParts, 1)
    IN  IF oidBytes.st # "ok" THEN Err(ErrParseOid, <<>>)
        ELSE LET mOid == marshalObjectIdentifier(oidBytes.val)
             IN  IF mOid.st # "ok" THEN Err(ErrMarshalOid, <<>>) ELSE mOid

RECURSIVE JoinDotted(_, _)
JoinDotted(oid, i) ==
    IF i > Len(oid) THEN <<>>
    ELSE Str(<<".">>) \o FormatInt(oid[i]) \o JoinDotted(oid, i + 1)

\* ret[1:] of the empty string panics
oidToString(oid) ==
    LET r == JoinDotted(oid, 1)
    IN  IF Len(r) < 1 THEN Panic ELSE Ok(Tail(r))

\* the loop of parseObjectIdentifier from offset, with the components so far
RECURSIVE OidLoop(_, _, _)
OidLoop(bytes, offset, sofar) ==
    IF offset >= Len(bytes) THEN Ok(sofar)
    ELSE IF Len(sofar) > Len(bytes) THEN Panic          \* s[i], never out of range
    ELSE LET r == parseBase128Int(bytes, offset)
         IN  IF r.st # "ok"
             THEN Err(r.err, sofar \o Fill(Len(bytes) + 1 - Len(sofar), Zero64))
             ELSE OidLoop(bytes, r.offset, Append(sofar, r.val))

parseObjectIdentifier(bytes) ==
    IF Len(bytes) = 0 THEN Err(ErrZeroLengthOid, <<>>)
    ELSE OidLoop(bytes, 1, <<WordOfByte(bytes[1] \div 40), WordOfByte(bytes[1] % 40)>>)

(***************************************************************************)
(* Calls of the object identifier codec                                    *)
(***************************************************************************)
\* the largest number of components after the first two
MaxOidRest == 2

\* the largest number of components after the first two of a sequence given
\* to marshalObjectIdentifier directly
MaxSeqRest == 1

FirstParts == {<<"0">>, <<"1">>, <<"2">>, <<"6">>, <<"7">>}

SecondParts == {<<"0">>, <<"3">>, <<"1", "5">>, <<"1", "6">>, <<"3", "9">>, <<"4", "0">>}

\* 0, 6, 127, 128, 16384, 2^35 - 1, 2^35
RestParts ==
    {<<"0">>, <<"6">>, <<"1", "2", "7">>, <<"1", "2", "8">>,
     <<"1", "6", "3", "8", "4">>,
     <<"3", "4", "3", "5", "9", "7", "3", "8", "3", "6", "7">>,
     <<"3", "4", "3", "5", "9", "7", "3", "8", "3", "6", "8">>}

RECURSIVE Dotted(_)
Dotted(parts) ==
    IF parts = <<>> THEN <<>> ELSE <<".">> \o parts[1] \o Dotted(Tail(parts))

\* strings that are not dotted lists of two or more numbers
OddStrings ==
    {<<>>, <<".">>, <<"1">>, <<".", "1", ".", "3", ".", "6">>,
     <<"1", ".", "3", ".", "6", ".">>, <<"1", ".", ".", "3">>, <<"1", ".", "x">>,
     <<"+", "1", ".", "3">>, <<"0", "1", ".", "3">>, <<"1", ".", "-", "3">>,
     <<"1", ".", "3", ".", "-">>, <<"-", "1", ".", "3">>}

OidStrings ==
    {Str(Tail(Dotted(<<x[1], x[2]>> \o x[3]))) :
        x \in FirstParts \X SecondParts \X SeqsUpTo(RestParts, MaxOidRest)}
        \cup {Str(t) : t \in OddStrings}

OidSequences ==
    {<<>>, <<Int64Of(1)>>}
        \cup {<<Int64Of(x[1]), Int64Of(x[2])>> \o x[3] :
                 x \in (0..7) \X {0, 15, 16, 39, 40, 255}
                           \X SeqsUpTo({Int64Of(0), Int64Of(127), Int64Of(128)},
                                       MaxSeqRest)}

OidInput(from, s, seq) ==
    [from |-> from, s |-> s, seq |-> seq, bytes |-> <<>>, ints |-> <<>>]

InitOid ==
    /\ fn = "" /\ ret = <<>>
    /\ \/ pc = "string" /\ arg \in {OidInput("string", t, <<>>) : t \in OidStrings}
       \/ pc = "seq" /\ arg \in {OidInput("seq", <<>>, q) : q \in OidSequences}

\* marshalOID(arg.s); its bytes are what parseObjectIdentifier is given next
CallMarshalOID ==
    /\ pc = "string"
    /\ fn' = "marshalOID"
    /\ ret' = marshalOID(arg.s)
    /\ IF marshalOID(arg.s).st = "ok"
       THEN pc' = "bytes" /\ arg' = [arg EXCEPT !.bytes = marshalOID(arg.s).val]
       ELSE pc' = "done" /\ arg' = arg

CallMarshalObjectIdentifier ==
    /\ pc = "seq"
    /\ fn' = "marshalObjectIdentifier"
    /\ ret' = marshalObjectIdentifier(arg.seq)
    /\ IF marshalObjectIdentifier(arg.seq).st = "ok"
       THEN pc' = "bytes"
            /\ arg' = [arg EXCEPT !.bytes = marshalObjectIdentifier(arg.seq).val]
       ELSE pc' = "done" /\ arg' = arg

\* parseObjectIdentifier(arg.bytes); its integers are what oidToString is
\* given next
CallParseObjectIdentifier ==
    /\ pc = "bytes"
    /\ fn' = "parseObjectIdentifier"
    /\ ret' = parseObjectIdentifier(arg.bytes)
    /\ IF parseObjectIdentifier(arg.bytes).st = "ok"
       THEN pc' = "ints"
            /\ arg' = [arg EXCEPT !.ints = parseObjectIdentifier(arg.bytes).val]
       ELSE pc' = "done" /\ arg' = arg

CallOidToString ==
    /\ pc = "ints"
    /\ pc' = "done"
    /\ fn' = "oidToString"
    /\ ret' = oidToString(arg.ints)
    /\ arg' = arg

NextOid ==
    \/ CallMarshalOID
    \/ CallMarshalObjectIdentifier
    \/ CallParseObjectIdentifier
    \/ CallOidToString

SpecOid == InitOid /\ [][NextOid]_vars

\* whether a part is a number written in canonical form: digits only, no sign,
\* no leading zero
CanonicalPart(part) ==
    /\ part # <<>>
    /\ \A i \in 1..Len(part) : IsDigit(part[i])
    /\ Len(part) > 1 => part[1] # Asc("0")

\* whether s is a valid OID string in canonical form: no leading or trailing
\* dot, at least two components, all of them numbers, the first <= 6 and the
\* second < 40
CanonicalOid(s) ==
    LET parts == Split(s, Asc("."))
    IN  /\ Len(parts) >= 2
        /\ \A i \in 1..Len(parts) : CanonicalPart(parts[i])
        /\ Len(parts[1]) = 1 /\ parts[1][1] <= Asc("6")
        /\ Len(parts[2]) <= 2
        /\ Len(parts[2]) = 2 => parts[2][1] <= Asc("3")

\* C2: for every valid OID string s in canonical form, marshalOID(s), then
\* parseObjectIdentifier of the bytes, then oidToString of the integers gives
\* back exactly s.
C2_OidRoundTrip ==
    (pc = "done" /\ arg.from = "string" /\ CanonicalOid(arg.s)) =>
        (fn = "oidToString" /\ ret.st = "ok" /\ ret.val = arg.s)

\* the string 1.3.6.128 has been encoded as 2B 06 81 00, decoded and rendered
\* back as 1.3.6.128
C2_Witness ==
    /\ pc = "done" /\ arg.from = "string" /\ fn = "oidToString"
    /\ arg.s = Str(<<"1", ".", "3", ".", "6", ".", "1", "2", "8">>)
    /\ arg.bytes = <<43, 6, 129, 0>>
    /\ ret.st = "ok" /\ ret.val = arg.s

\* whether marshalObjectIdentifier is documented to accept the sequence
InOidDomain(seq) == Len(seq) >= 2 /\ Less64(seq[1], 7) /\ Less64(seq[2], 40)

\* C3: whenever marshalObjectIdentifier accepts a sequence (at least 2
\* components, seq[0] <= 6, seq[1] < 40), the first byte it emits is exactly
\* 40*seq[0]+seq[1], with no wrap-around modulo 256, so that
\* parseObjectIdentifier recovers seq[0] and seq[1] from it; and it fails with
\* "invalid object identifier" for every sequence outside that domain.
C3_FirstByteExact ==
    /\ (fn = "marshalObjectIdentifier" /\ pc \in {"bytes", "done"}) =>
          /\ InOidDomain(arg.seq) <=> ret.st = "ok"
          /\ ~InOidDomain(arg.seq) => (ret.st = "err" /\ ret.err = ErrInvalidOid)
          /\ ret.st = "ok" => ret.val[1] = 40 * NatOf(arg.seq[1]) + NatOf(arg.seq[2])
    /\ (fn = "parseObjectIdentifier" /\ arg.from = "seq" /\ pc \in {"ints", "done"}) =>
          /\ ret.st = "ok"
          /\ ret.val[1] = arg.seq[1]
          /\ ret.val[2] = arg.seq[2]

\* the sequence 1.15.127 has been encoded with first byte 55 and its first two
\* components recovered
C3_Witness ==
    /\ fn = "parseObjectIdentifier" /\ arg.from = "seq" /\ pc = "ints"
    /\ arg.seq = <<Int64Of(1), Int64Of(15), Int64Of(127)>>
    /\ arg.bytes = <<55, 127>>
    /\ ret.st = "ok" /\ ret.val = arg.seq

(***************************************************************************)
(* Typed value decoder and raw field parser                                *)
(*                                                                         *)
(* A buffer is a Go slice: data is what lies within its length, extra what *)
(* lies past its length within its capacity.  An index expression panics   *)
(* past the length, a slice expression past the capacity.                  *)
(***************************************************************************)
Integer == 2

OctetString == 4

Null == 5

ObjectIdentifier == 6

IpAddress == 64

Counter32 == 65

Gauge32 == 66

TimeTicks == 67

Counter64 == 70

NoSuchObject == 128

NoSuchInstance == 129

\* the Type of new(Variable)
UnsetType == 0

ErrNotImplemented == "Unable to decode - not implemented"

ErrBytes == "bytes: err: integer too large"

ErrParsingOid == "Error parsing OID Value"

ErrIpShort == "not enough data for ipaddress"

ErrIpLength == "got ipaddress len, expected 4"

ErrUnknownField == "Unknown field type"

\* s[lo:hi] of the slice whose backing array holds full: hi is a signed word
SliceCap(full, lo, hi) ==
    IF IsNeg64(hi) \/ ~FitsNat(hi) THEN Panic
    ELSE IF NatOf(hi) > Len(full) \/ lo > NatOf(hi) THEN Panic
    ELSE [st |-> "ok", val |-> SubSeq(full, lo + 1, NatOf(hi))]

\* length, cursor := parseLength(data), then data[cursor:length]
BodyAfterLength(data, extra) ==
    LET pl == parseLength(data)
    IN  IF pl.st = "panic" THEN Panic
        ELSE SliceCap(data \o extra, pl.cursor, pl.length)

Value(kind, num, text, ints) == [kind |-> kind, num |-> num, text |-> text, ints |-> ints]

NilValue == Value("nil", Zero64, <<>>, <<>>)

Variable(type, value) == [isNil |-> FALSE, Type |-> type, Value |-> value]

NewVariable == Variable(UnsetType, NilValue)

NilVariable == [isNil |-> TRUE, Type |-> UnsetType, Value |-> NilValue]

Decoded(st, err, var) == [st |-> st, err |-> err, var |-> var]

DecodePanic == Decoded("panic", "", NilVariable)

RawField(st, err, val, consumed) ==
    [st |-> st, err |-> err, val |-> val, consumed |-> consumed]

RawPanic == RawField("panic", "", NilValue, 0)

parseRawField(data, extra) ==
    IF Len(data) = 0 THEN RawPanic                       \* data[0]
    ELSE IF data[1] = Integer
    THEN IF Len(data) < 2 THEN RawPanic                  \* data[1]
         ELSE LET length == data[2]
              IN  IF length = 1
                  THEN IF Len(data) < 3 THEN RawPanic    \* data[2]
                       ELSE RawField("ok", "",
                                     Value("int", WordOfByte(data[3]), <<>>, <<>>), 3)
                  ELSE LET body == SliceCap(data \o extra, 2, Int64Of(2 + length))
                       IN  IF body.st = "panic" THEN RawPanic
                           ELSE LET resp == parseUint(body.val)
                                IN  RawField(resp.st, resp.err,
                                             Value("uint", resp.val, <<>>, <<>>),
                                             2 + length)
    ELSE IF data[1] = OctetString
    THEN LET pl == parseLength(data)
             body == BodyAfterLength(data, extra)
         IN  IF body.st = "panic" THEN RawPanic
             ELSE RawField("ok", "", Value("string", Zero64, body.val, <<>>),
                           NatOf(pl.length))
    ELSE IF data[1] = ObjectIdentifier
    THEN IF Len(data) < 2 THEN RawPanic                  \* data[1]
         ELSE LET length == data[2]
                  body == SliceCap(data \o extra, 2, Int64Of(2 + length))
              IN  IF body.st = "panic" THEN RawPanic
                  ELSE LET oid == parseObjectIdentifier(body.val)
                       IN  RawField(oid.st, oid.err,
                                    Value("oid", Zero64, <<>>, oid.val), length + 2)
    ELSE RawField("err", ErrUnknownField, NilValue, 0)

HexDigit(d) ==
    IF d < 10 THEN Asc("0") + d ELSE Asc("a") + (d - 10)

\* fmt.Sprintf("% x", bytes): two hex digits a byte, a space between bytes
RECURSIVE HexDump(_, _)
HexDump(bytes, i) ==
    IF i > Len(bytes) THEN <<>>
    ELSE (IF i > 1 THEN Str(<<" ">>) ELSE <<>>)
             \o <<HexDigit(bytes[i] \div 16), HexDigit(bytes[i] % 16)>>
             \o HexDump(bytes, i + 1)

\* for i := 2; i < 6; i++ { ipv4 += fmt.Sprintf(".%d", data[i]) }
RECURSIVE DottedBytes(_, _, _)
DottedBytes(data, i, last) ==
    IF i > last THEN <<>>
    ELSE Str(<<".">>) \o FormatInt(WordOfByte(data[i])) \o DottedBytes(data, i + 1, last)

\* the cases of decodeValue that decode a number from data[cursor:length]:
\* a failure of the parse is returned as an error by the Integer case (silent
\* is FALSE) and only logged by the other cases, which break out of the switch
\* with the named result err still nil
DecodeNumber(r, type, kind, silent) ==
    IF r.st = "ok" THEN Decoded("ok", "", Variable(type, Value(kind, r.val, <<>>, <<>>)))
    ELSE IF silent THEN Decoded("ok", "", NewVariable)
    ELSE Decoded("err", ErrBytes, NewVariable)

decodeValue(data, extra) ==
    IF Len(data) = 0 THEN DecodePanic                    \* data[0]
    ELSE IF data[1] = Integer
    THEN LET body == BodyAfterLength(data, extra)
         IN  IF body.st = "panic" THEN DecodePanic
             ELSE DecodeNumber(parseInt(body.val), Integer, "int", FALSE)
    ELSE IF data[1] = OctetString
    THEN LET pl == parseLength(data)
             body == BodyAfterLength(data, extra)
         IN  IF pl.st = "panic" THEN DecodePanic
             ELSE IF pl.cursor >= Len(data) THEN DecodePanic     \* data[cursor]
             ELSE IF data[pl.cursor + 1] = 0 /\ pl.length = Int64Of(2)
             THEN Decoded("ok", "",
                          Variable(OctetString, Value("string", Zero64, <<>>, <<>>)))
             ELSE IF body.st = "panic" THEN DecodePanic
             ELSE IF data[pl.cursor + 1] = 0
             THEN Decoded("ok", "",
                          Variable(OctetString,
                                   Value("string", Zero64, HexDump(body.val, 1), <<>>)))
             ELSE Decoded("ok", "",
                          Variable(OctetString, Value("string", Zero64, body.val, <<>>)))
    ELSE IF data[1] = Null
    THEN Decoded("ok", "", Variable(Null, NilValue))
    ELSE IF data[1] = ObjectIdentifier
    THEN LET raw == parseRawField(data, extra)
         IN  IF raw.st = "panic" THEN DecodePanic
             ELSE IF raw.st = "err" THEN Decoded("err", ErrParsingOid, NilVariable)
             ELSE LET str == oidToString(raw.val.ints)
                  IN  IF str.st = "panic" THEN DecodePanic
                      ELSE Decoded("ok", "",
                                   Variable(ObjectIdentifier,
                                            Value("string", Zero64, str.val, <<>>)))
    ELSE IF data[1] = IpAddress
    THEN IF Len(data) < 6 THEN Decoded("err", ErrIpShort, NilVariable)
         ELSE IF data[2] # 4 THEN Decoded("err", ErrIpLength, NilVariable)
         ELSE Decoded("ok", "",
                      Variable(IpAddress,
                               Value("string", Zero64, Tail(DottedBytes(data, 3, 6)), <<>>)))
    ELSE IF data[1] \in {Counter32, Gauge32}
    THEN LET body == BodyAfterLength(data, extra)
         IN  IF body.st = "panic" THEN DecodePanic
             ELSE DecodeNumber(parseUint(body.val), data[1], "uint", TRUE)
    ELSE IF data[1] = TimeTicks
    THEN LET body == BodyAfterLength(data, extra)
         IN  IF body.st = "panic" THEN DecodePanic
             ELSE DecodeNumber(parseInt(body.val), TimeTicks, "int", TRUE)
    ELSE IF data[1] = Counter64
    THEN LET body == BodyAfterLength(data, extra)
         IN  IF body.st = "panic" THEN DecodePanic
             ELSE DecodeNumber(parseInt64(body.val), Counter64, "int64", TRUE)
    ELSE IF data[1] \in {NoSuchObject, NoSuchInstance}
    THEN Decoded("ok", "", Variable(data[1], NilValue))
    ELSE Decoded("err", ErrNotImplemented, NewVariable)

(***************************************************************************)
(* Calls of the decoders                                                   *)
(***************************************************************************)
\* the longest value body made of one repeated byte
MaxBody == 10

\* the longest value body made of mixed bytes
MaxMixedBody == 2

\* the number of bytes past the length of a buffer with spare capacity
MaxSpare == 140

\* what lies past the length of a buffer with spare capacity: 0xFF bytes
Spare(n) == Fill(n, 255)

\* every tag decodeValue knows, and two it does not (0x30 and 0x00)
Tags ==
    {Integer, OctetString, Null, ObjectIdentifier, IpAddress, Counter32, Gauge32,
     TimeTicks, Counter64, NoSuchObject, NoSuchInstance, 48, 0}

Bodies ==
    {Fill(x[1], x[2]) : x \in (0..MaxBody) \X {0, 255}}
        \cup SeqsUpTo({1, 43, 129}, MaxMixedBody)
        \cup {<<192, 168, 0, 1>>, <<43, 6, 1, 2, 1>>, <<43, 6, 129, 128, 128, 128, 128, 0>>}

\* the length octets of a body of n < 128 bytes: the short form, and the long
\* definite form with one and with two length octets
LengthForms(n) == {<<n>>, <<129, n>>, <<130, 0, n>>}

Prefixes(b) == {SubSeq(b, 1, k) : k \in 0..(Len(b) - 1)}

\* a buffer that starts with a complete TLV (1 tag byte, length octets, value
\* octets: total bytes in all), followed or not by a sibling field
CompleteTLV(tag, octets, body, rest) ==
    [data |-> <<tag>> \o octets \o body \o rest, spare |-> 0,
     complete |-> TRUE, total |-> 1 + Len(octets) + Len(body), body |-> Len(body)]

\* a buffer that ends before its TLV does
Truncated(b) ==
    [data |-> b, spare |-> 0, complete |-> FALSE, total |-> 0, body |-> 0]

CompleteBuffers ==
    UNION {{CompleteTLV(x[1], f, x[2], x[3]) : f \in LengthForms(Len(x[2]))} :
              x \in Tags \X Bodies \X {<<>>, <<5, 0>>}}

TruncatedBuffers ==
    {Truncated(b) :
        b \in UNION {Prefixes(c.data) : c \in {d \in CompleteBuffers : d.total = Len(d.data)}}}

\* every buffer, with its capacity equal to its length and with spare capacity
DecodeInputs ==
    {[c EXCEPT !.spare = n] : c \in CompleteBuffers \cup TruncatedBuffers, n \in {0, MaxSpare}}

InitDecode == pc = "call" /\ fn = "" /\ arg \in DecodeInputs /\ ret = <<>>

CallDecodeValue == Done("decodeValue", decodeValue(arg.data, Spare(arg.spare)))

CallParseRawField == Done("parseRawField", parseRawField(arg.data, Spare(arg.spare)))

NextDecode == CallDecodeValue \/ CallParseRawField

SpecDecode == InitDecode /\ [][NextDecode]_vars

\* C1: for every input buffer (the empty buffer, a buffer holding only a tag
\* byte, a truncated buffer, a buffer whose declared length exceeds the bytes
\* present), decodeValue and parseRawField finish by returning a value or an
\* error; no input leads to an out-of-range read or another fatal failure.
C1_NoPanic ==
    (pc = "done" /\ fn \in {"decodeValue", "parseRawField"}) => ret.st \in {"ok", "err"}

\* a complete OctetString of 2 bytes has been decoded by decodeValue
C1_Witness ==
    /\ pc = "done" /\ fn = "decodeValue" /\ arg.complete
    /\ arg.data = <<OctetString, 2, 43, 43>> /\ ret.st = "ok"

\* the shape of Value that each Type prescribes
KindOf(type) ==
    CASE type \in {Integer, TimeTicks} -> "int"
      [] type \in {Counter32, Gauge32} -> "uint"
      [] type = Counter64 -> "int64"
      [] type \in {OctetString, ObjectIdentifier, IpAddress} -> "string"
      [] OTHER -> "nil"

\* C6: whenever decodeValue returns without an error, the Variable's Type is
\* the tag byte of the input and its Value has the shape the Type prescribes;
\* when the body of a Counter32, Gauge32, TimeTicks or Counter64 TLV is longer
\* than 8 bytes, the overflow is returned as an error, not as a successful
\* result with an unset Type and an empty Value.
C6_TypeDeterminesValue ==
    (pc = "done" /\ fn = "decodeValue") =>
        /\ ret.st = "ok" =>
              /\ ~ret.var.isNil
              /\ ret.var.Type = arg.data[1]
              /\ ret.var.Value.kind = KindOf(ret.var.Type)
        /\ (arg.complete /\ arg.body > 8
                /\ arg.data[1] \in {Counter32, Gauge32, TimeTicks, Counter64}) =>
              ret.st = "err"

\* a Counter32 of 4 bytes has been decoded to an unsigned number
C6_Witness ==
    /\ pc = "done" /\ fn = "decodeValue" /\ arg.complete
    /\ arg.data = <<Counter32, 4, 255, 255, 255, 255>>
    /\ ret.st = "ok" /\ ret.var.Type = Counter32 /\ ret.var.Value.kind = "uint"
    /\ ret.var.Value.num = <<0, 0, 0, 0, 255, 255, 255, 255>>

\* whether the buffer starts with a complete, well-formed TLV of one of the
\* three tags: an Integer and an ObjectIdentifier have at least one value
\* octet, and the last octet of an ObjectIdentifier ends a component
WellFormedTLV(data, complete, total, body) ==
    /\ complete
    /\ \/ data[1] = OctetString
       \/ data[1] = Integer /\ body >= 1
       \/ data[1] = ObjectIdentifier /\ body >= 1 /\ data[total] < 128

\* C10: for every buffer that starts with a complete TLV whose tag is Integer,
\* OctetString or ObjectIdentifier and whose length is in the short or the
\* long definite form, the bytes consumed that parseRawField returns are the
\* total size of the TLV (1 tag byte + length octets + value octets), the
\* total parseLength computes for the buffer.
C10_ConsumedIsTotal ==
    (pc = "done" /\ fn = "parseRawField" /\ WellFormedTLV(arg.data, arg.complete, arg.total, arg.body)) =>
        /\ ret.st # "panic"
        /\ ret.consumed = arg.total
        /\ parseLength(arg.data).st = "ok"
        /\ parseLength(arg.data).length = Int64Of(arg.total)

\* an ObjectIdentifier in the short form, followed by a sibling field, has been
\* parsed and its 7 bytes consumed
C10_Witness ==
    /\ pc = "done" /\ fn = "parseRawField" /\ arg.complete
    /\ arg.data = <<ObjectIdentifier, 5, 43, 6, 1, 2, 1, 5, 0>>
    /\ ret.st = "ok" /\ ret.consumed = 7 /\ arg.total = 7

====
